---- MODULE Spec2Model ----
(***************************************************************************)
(* Order / inventory workflow of the Creative Merch UK storefront.         *)
(*                                                                         *)
(* Firestore side (src/functions/index.js and the second functions file    *)
(* kept in src/QUICK_SUMMARY.md): products, orders, Stripe payment         *)
(* intents and checkout sessions, the onCreate trigger that deducts stock. *)
(* Express / MongoDB side (src/backend/routes/contact.routes.js): the      *)
(* admin stock route, the contact form behind its rate limiter, the login  *)
(* attempt tracking (src/backend/services/email.service.js) and the review *)
(* routes (src/backend/routes/reviews.routes.js).  The two stores are      *)
(* separate: syncStockToMongo only writes a log entry.                     *)
(*                                                                         *)
(* Mail is the Firestore mail collection.  The onUpdate triggers           *)
(* (syncStockToMongo, onOrderStatusUpdate) handle change events, which are *)
(* recorded for the triggers a specification deploys.  The scheduled       *)
(* functions run against a clock counted in minutes.                       *)
(*                                                                         *)
(* Money is counted in tenths of a penny, so that GBP 4.99 is 4990 and     *)
(* Math.round(total * 100) is a real rounding to whole pence.              *)
(***************************************************************************)
EXTENDS Integers, Sequences, FiniteSets, Bags, TLC

\* ---------------------------------------------------------------- bounds
MaxOrders == 1
MaxQty == 2
MaxStock == 1
MaxAdminQty == 2
MaxAdminCalls == 3
MaxStockEvents == 3
MaxTicks == 3
MaxFaults == 2
MaxMails == 2
MaxOrderEvents == 2
MaxContacts == 6
MaxTracked == 6
MaxReviewCalls == 3
MaxSubmitted == 1

\* ------------------------------------------------------ program constants
FlatShipping == 4990
FreeShippingOver == 50000
SessionFreeShippingFrom == 100000
VatPercent == 20
LowStockThreshold == 10
ThirtyMinutes == 30
DayMinutes == 1440
ReviewAfterDays == 7
ContactLimit == 5
ContactWindow == 1
MaxLoginAttempts == 5
LockoutMinutes == 15

\* ------------------------------------------------------------- catalog
Products == {"pA", "pB"}
ProductIds == Products \cup {"pX"}

Price == [p \in Products |-> IF p = "pA" THEN 10000 ELSE 25000]

InitStock == [p \in Products |-> MaxStock]

Quantities == 1 .. MaxQty

\* prices a client may put in a cart line besides the catalog price
TamperedPrices == {10}

ClientPrices(p) == TamperedPrices \cup (IF p \in Products THEN {Price[p]} ELSE {})

CartLine == UNION {[productId : {p}, quantity : Quantities, price : ClientPrices(p)] : p \in ProductIds}

\* carts of no, one or two lines
CartLengths == {0, 1, 2}

Carts == UNION {[1 .. n -> CartLine] : n \in CartLengths}

StockLine == [id : ProductIds, quantity : Quantities]

\* stock lists of one or two lines
ListLengths == {1, 2}

StockLists == UNION {[1 .. n -> StockLine] : n \in ListLengths}

\* -------------------------------------------------------------- helpers
RECURSIVE LineTotal(_, _)
LineTotal(items, n) ==
    IF n = 0 THEN 0
    ELSE LineTotal(items, n - 1) + items[n].price * items[n].quantity

Subtotal(items) == LineTotal(items, Len(items))

RECURSIVE QtyUpTo(_, _, _)
QtyUpTo(items, p, n) ==
    IF n = 0 THEN 0
    ELSE QtyUpTo(items, p, n - 1) + (IF items[n].productId = p THEN items[n].quantity ELSE 0)

\* total quantity of product p in an order's items
QtyOf(items, p) == QtyUpTo(items, p, Len(items))

\* Math.round(x / 10) for x >= 0: tenths of a penny to whole pence
RoundToPence(x) == (x + 5) \div 10

ShippingFor(subtotal) == IF subtotal > FreeShippingOver THEN 0 ELSE FlatShipping

\* variant: the total is passed to Stripe in pounds, not converted to pence
AmountInPounds(total) == total \div 1000

AmountInPence(total) == RoundToPence(total)

\* variant: the stock check only refuses a product that is sold out
RECURSIVE FirstSoldOut(_, _, _)
FirstSoldOut(cart, stk, i) ==
    IF i > Len(cart) THEN 0
    ELSE IF cart[i].productId \notin Products THEN i
    ELSE IF stk[cart[i].productId] <= 0 THEN i
    ELSE FirstSoldOut(cart, stk, i + 1)

\* the first item of the cart that createPaymentIntent rejects, 0 if none
RECURSIVE FirstRejected(_, _, _)
FirstRejected(cart, stk, i) ==
    IF i > Len(cart) THEN 0
    ELSE IF cart[i].productId \notin Products THEN i
    ELSE IF stk[cart[i].productId] < cart[i].quantity THEN i
    ELSE FirstRejected(cart, stk, i + 1)

CartError(cart, stk) ==
    LET i == FirstRejected(cart, stk, 1) IN
    IF i = 0 THEN "ok"
    ELSE IF cart[i].productId \notin Products THEN "not-found"
    ELSE "out-of-resource"

\* orderItems.push({... price: product.price ...}): the catalog price replaces the client's
OrderItems(cart) ==
    [i \in 1 .. Len(cart) |->
        [productId |-> cart[i].productId, quantity |-> cart[i].quantity,
         price |-> Price[cart[i].productId]]]

\* a stock list names a missing product or more of a product than is in stock
AnyShort(items, stk) ==
    \E i \in 1 .. Len(items) :
        \/ items[i].id \notin Products
        \/ stk[items[i].id] < items[i].quantity

\* a cart names a missing product or more of a product than is in stock
AnyUnavailable(cart, stk) ==
    \E i \in 1 .. Len(cart) :
        \/ cart[i].productId \notin Products
        \/ stk[cart[i].productId] < cart[i].quantity

\* ------------------------------------------------------------ variables
VARIABLES
    stock,          \* Firestore products/{id}.stock
    orders,         \* Firestore orders, in creation order (the index is the order id)
    intents,        \* Stripe payment intents (the index is the intent id)
    sessions,       \* Stripe checkout session of each order: "none", "open", "completed"
    pendingCreate,  \* orders whose onCreate trigger has not run yet
    deducted,       \* history: how many times each order's items were deducted
    ustTotal,       \* history: quantity taken from each product by updateStockTransaction
    last,           \* the last call, its outcome, and whether its request named a missing
                    \* product or more of a product than was in stock
    mongoStock,     \* MongoDB Product.stock
    adminReq,       \* PATCH /:id/stock requests in flight
    added,          \* history: sum of the quantities of the saved 'add' requests
    onlyAdds,       \* history: every saved request so far was an 'add'
    adminCalls,     \* number of PATCH /:id/stock requests received
    requests,       \* the Map of the contact form's rate limiter: times of a user's requests
    contacts,       \* Contact documents, with the client that sent each (history) and the time
    loginAttempts,  \* the Map of the login attempt tracking
    tracked,        \* history: trackLoginAttempt calls per key since its last resetLoginAttempts
    productDocs,    \* MongoDB Product documents: reviews, rating and version key
    completed,      \* MongoDB orders with payment.status 'completed': <<user, product>>
    reviewReq,      \* review requests between their load and their save
    reviewCalls,    \* number of review requests received
    productReviews, \* Firestore products/{id}/reviews, in creation order
    mail,           \* Firestore mail collection: the bag of enqueued notifications
    deployed,       \* the onUpdate triggers that receive change events
    productEvents,  \* products/{id} change events not yet handled by syncStockToMongo
    orderEvents,    \* orders/{id} change events not yet handled by onOrderStatusUpdate
    waitlists,      \* Firestore waitlists/{productId}: its emails, or NoDoc
    notifying,      \* notifyWaitlist invocations between their read and their commit
    stockLogs,      \* number of documents in Firestore stock_logs
    crossings,      \* history: stock writes per product that went from >= 10 to < 10
    carts,          \* Firestore carts
    now,            \* the clock, in minutes
    ticks,          \* number of clock advances
    job,            \* the scheduled run in progress
    faults          \* number of runs killed or failed

vars == <<stock, orders, intents, sessions, pendingCreate, deducted,
          ustTotal, last, mongoStock, adminReq, added, onlyAdds, adminCalls,
          requests, contacts, loginAttempts, tracked,
          productDocs, completed, reviewReq, reviewCalls, productReviews,
          mail, deployed, productEvents, orderEvents, waitlists, notifying, stockLogs, crossings,
          carts, now, ticks, job, faults>>

fsVars == <<stock, orders, intents, sessions, pendingCreate, deducted, ustTotal>>

limiterVars == <<requests, contacts>>

loginVars == <<loginAttempts, tracked>>

\* the state of the Express routes other than the stock route
reviewVars == <<productDocs, completed, reviewReq, reviewCalls, productReviews>>

webVars == <<limiterVars, loginVars, reviewVars>>

stockRouteVars == <<mongoStock, adminReq, added, onlyAdds, adminCalls>>

\* the Express / MongoDB side
mongoVars == <<stockRouteVars, webVars>>

stockHooks == <<productEvents, waitlists, notifying, stockLogs, crossings>>

hookVars == <<deployed, orderEvents, stockHooks>>

jobVars == <<carts, now, ticks, job, faults>>

auxVars == <<mail, hookVars, jobVars>>

Admins == {"a1", "a2"}

Emails == {"e1", "e2"}

\* the identifiers a login may name
Identifiers == {"Ann", "ann", "bob"}

\* identifier.toLowerCase()
ToLowerCase(identifier) == IF identifier = "Ann" THEN "ann" ELSE identifier

LoginKeys == {ToLowerCase(identifier) : identifier \in Identifiers}

\* a collection without documents
NoDocs == [d \in {} |-> {}]

\* the requests that can be in flight on the review routes
Slots == {"r1", "r2"}

\* no review request in flight
NoRequest == [pc |-> "idle", op |-> "none", product |-> "pA",
              review |-> [id |-> 0, user |-> "none", rating |-> 0],
              average |-> <<0, 1>>, count |-> 0, v |-> 0]

\* a product without reviews; the average is kept as <<numerator, denominator>>,
\* in half stars
NoReviews == [reviews |-> <<>>, rating |-> [average |-> <<0, 1>>, count |-> 0], v |-> 0]

\* context.auth of a call without credentials, and an order's userId then
NoUid == "null"

\* a timestamp field that is not set
NoTime == -1

\* the cart documents, in the order a query returns them
CartOrder == <<"c1", "c2">>

CartIds == {CartOrder[k] : k \in 1 .. Len(CartOrder)}

\* no scheduled run is in progress
Idle == [name |-> "idle", pass |-> 0, docs |-> <<>>, pc |-> 0]

OrderIds == 1 .. Len(orders)

\* no order, intent or request yet
InitStore ==
    /\ orders = <<>>
    /\ intents = <<>>
    /\ sessions = <<>>
    /\ pendingCreate = {}
    /\ deducted = <<>>
    /\ ustTotal = [p \in Products |-> 0]
    /\ last = [op |-> "none", result |-> "none", short |-> FALSE]
    /\ mongoStock = InitStock
    /\ adminReq = [a \in Admins |-> [pc |-> "idle", id |-> "pA", operation |-> "set", quantity |-> 0, doc |-> 0]]
    /\ added = [p \in Products |-> 0]
    /\ onlyAdds = TRUE
    /\ adminCalls = 0
    /\ requests = NoDocs
    /\ contacts = EmptyBag
    /\ loginAttempts = NoDocs
    /\ tracked = [k \in LoginKeys |-> 0]
    /\ productDocs = [p \in Products |-> NoReviews]
    /\ completed = {}
    /\ reviewReq = [s \in Slots |-> NoRequest]
    /\ reviewCalls = 0
    /\ productReviews = <<>>
    /\ mail = EmptyBag
    /\ productEvents = EmptyBag
    /\ orderEvents = EmptyBag
    /\ notifying = EmptyBag
    /\ stockLogs = 0
    /\ crossings = [p \in Products |-> 0]
    /\ now = 0
    /\ ticks = 0
    /\ job = Idle
    /\ faults = 0

Init ==
    /\ InitStore
    /\ stock = InitStock
    /\ deployed = {}
    /\ waitlists = NoDocs
    /\ carts = NoDocs

\* ------------------------------------------- createPaymentIntent (Stripe)
\* uid: context.auth.uid, or NoUid; stripeOk: whether stripe.paymentIntents.create
\* returns or throws
CreatePaymentIntentAs(uid, cart, stripeOk) ==
    LET err == CartError(cart, stock)
        short == AnyUnavailable(cart, stock)
        orderItems == OrderItems(cart)
        subtotal == Subtotal(orderItems)
        shipping == ShippingFor(subtotal)
        total == subtotal + shipping
        intentId == Len(intents) + 1
    IN
    /\ IF err # "ok"
       THEN /\ last' = [op |-> "createPaymentIntent", result |-> err, short |-> short]
            /\ UNCHANGED <<fsVars, mongoVars, auxVars>>
       ELSE IF ~stripeOk
       THEN /\ last' = [op |-> "createPaymentIntent", result |-> "stripe-error", short |-> short]
            /\ UNCHANGED <<fsVars, mongoVars, auxVars>>
       ELSE /\ intents' = Append(intents, [amount |-> AmountInPence(total), status |-> "requires_payment_method"])
            /\ orders' = Append(orders,
                   [items |-> orderItems, subtotal |-> subtotal, tax |-> 0, shipping |-> shipping,
                    total |-> total, status |-> "pending_payment", paymentIntentId |-> intentId,
                    customOrderStatus |-> "none", time_delivered |-> NoTime,
                    review_requested |-> "absent", tracking_number |-> "absent",
                    userId |-> uid])
            /\ sessions' = Append(sessions, "none")
            /\ pendingCreate' = pendingCreate \cup {Len(orders) + 1}
            /\ deducted' = Append(deducted, 0)
            /\ last' = [op |-> "createPaymentIntent", result |-> "ok", short |-> short]
            /\ UNCHANGED <<stock, ustTotal, mongoVars, auxVars>>

\* the call of a guest
CreatePaymentIntent(cart, stripeOk) == CreatePaymentIntentAs(NoUid, cart, stripeOk)

\* ------------------------------------------------- mail and change events
\* a document of the mail collection about an order
OrderMail(template, o) == [template |-> template, order |-> o, about |-> "", to |-> "customer"]

LowStockMail(p) == [template |-> "low-stock", order |-> 0, about |-> p, to |-> "admin"]

RestockMail(p, email) == [template |-> "restock-notification", order |-> 0, about |-> p, to |-> email]

CartMail(template, c) == [template |-> template, order |-> 0, about |-> c, to |-> "customer"]

\* the onUpdate events raised for the product documents a commit has changed
StockEvents(old, new) ==
    IF "syncStockToMongo" \in deployed
    THEN productEvents (+) SetToBag({[id |-> p, old |-> old[p], new |-> new[p]] :
                                       p \in {q \in Products : old[q] # new[q]}})
    ELSE productEvents

\* history: one more crossing for each product a commit takes from >= 10 to < 10
Crossed(old, new) ==
    [p \in Products |->
        crossings[p] + (IF old[p] >= LowStockThreshold /\ new[p] < LowStockThreshold THEN 1 ELSE 0)]

\* the onUpdate event raised for an order document a write has updated, with
\* the status before and after the write
StatusEvents(o, old, new) ==
    IF "onOrderStatusUpdate" \in deployed
    THEN orderEvents (+) SetToBag({[id |-> o, old |-> old, new |-> new]})
    ELSE orderEvents

\* --------------------------------------------------- onOrderCreated trigger
RECURSIVE Deduct(_, _, _)
\* batch of FieldValue.increment(-quantity), one per item
Deduct(stk, items, n) ==
    IF n = 0 THEN stk
    ELSE LET s == Deduct(stk, items, n - 1) IN
         [s EXCEPT ![items[n].productId] = @ - items[n].quantity]

\* batch.update fails as a whole when one of the product documents does not exist
BatchFails(items) == \E i \in 1 .. Len(items) : items[i].productId \notin Products

\* mailOk: whether building and enqueueing the confirmation mail returns or throws
OnOrderCreated(o, mailOk) ==
    /\ o \in pendingCreate
    /\ pendingCreate' = pendingCreate \ {o}
    /\ IF BatchFails(orders[o].items)
       THEN /\ last' = [op |-> "onOrderCreated", result |-> "not-found", short |-> FALSE]
            /\ UNCHANGED <<stock, deducted, mail, productEvents, crossings>>
       ELSE /\ stock' = Deduct(stock, orders[o].items, Len(orders[o].items))
            /\ deducted' = [deducted EXCEPT ![o] = @ + 1]
            /\ productEvents' = StockEvents(stock, stock')
            /\ crossings' = Crossed(stock, stock')
            /\ mail' = IF mailOk THEN mail (+) SetToBag({OrderMail("order-confirmation", o)}) ELSE mail
            /\ last' = [op |-> "onOrderCreated", result |-> IF mailOk THEN "ok" ELSE "error", short |-> FALSE]
    /\ UNCHANGED <<orders, intents, sessions, ustTotal, mongoVars, deployed, orderEvents,
                   waitlists, notifying, stockLogs, jobVars>>

\* ------------------------------------------------ Stripe (the processor)
\* the customer pays: the intent settles
StripeSettle(i) ==
    /\ i \in 1 .. Len(intents)
    /\ intents[i].status = "requires_payment_method"
    /\ intents' = [intents EXCEPT ![i].status = "succeeded"]
    /\ last' = [op |-> "stripe", result |-> "succeeded", short |-> FALSE]
    /\ UNCHANGED <<stock, orders, sessions, pendingCreate, deducted, ustTotal, mongoVars, auxVars>>

\* the payment is abandoned: the intent is canceled
StripeCancel(i) ==
    /\ i \in 1 .. Len(intents)
    /\ intents[i].status = "requires_payment_method"
    /\ intents' = [intents EXCEPT ![i].status = "canceled"]
    /\ last' = [op |-> "stripe", result |-> "canceled", short |-> FALSE]
    /\ UNCHANGED <<stock, orders, sessions, pendingCreate, deducted, ustTotal, mongoVars, auxVars>>

\* ------------------------------------------------------------ confirmOrder
\* variant: every intent that is not canceled counts as paid
PaymentNotCanceled(order, intentId) == intents[intentId].status # "canceled"
\* what confirmOrder requires of the intent it retrieved before it writes 'paid'
PaymentVerified(order, intentId) == intents[intentId].status = "succeeded"

\* orderRef.update({status: 'paid'}): the only field written
ConfirmWrite(ords, orderId) == [ords EXCEPT ![orderId].status = "paid"]

\* variant: confirmation runs the inventory deduction for the order's items again
ConfirmOrderDeducts(orderId, intentId) ==
    /\ orderId \in OrderIds
    /\ intentId \in 1 .. Len(intents)
    /\ PaymentVerified(orders[orderId], intentId)
    /\ orders' = ConfirmWrite(orders, orderId)
    /\ stock' = Deduct(stock, orders[orderId].items, Len(orders[orderId].items))
    /\ deducted' = [deducted EXCEPT ![orderId] = @ + 1]
    /\ last' = [op |-> "confirmOrder", result |-> "success", short |-> FALSE]
    /\ UNCHANGED <<intents, sessions, pendingCreate, ustTotal, mongoVars, auxVars>>

ConfirmOrder(orderId, intentId) ==
    IF orderId \notin OrderIds
    THEN /\ last' = [op |-> "confirmOrder", result |-> "not-found", short |-> FALSE]
         /\ UNCHANGED <<fsVars, mongoVars, auxVars>>
    ELSE IF intentId \notin 1 .. Len(intents)
    THEN /\ last' = [op |-> "confirmOrder", result |-> "stripe-error", short |-> FALSE]
         /\ UNCHANGED <<fsVars, mongoVars, auxVars>>
    ELSE IF PaymentVerified(orders[orderId], intentId)
    THEN /\ orders' = ConfirmWrite(orders, orderId)
         \* a write that changes no field of the document raises no event
         /\ orderEvents' = IF orders' = orders THEN orderEvents
                           ELSE StatusEvents(orderId, orders[orderId].status, "paid")
         /\ last' = [op |-> "confirmOrder", result |-> "success", short |-> FALSE]
         /\ UNCHANGED <<stock, intents, sessions, pendingCreate, deducted, ustTotal, mongoVars,
                        mail, deployed, stockHooks, jobVars>>
    ELSE /\ last' = [op |-> "confirmOrder", result |-> "not-succeeded", short |-> FALSE]
         /\ UNCHANGED <<fsVars, mongoVars, auxVars>>

\* ------------------------------------------- admin status transitions
\* paid -> shipped, by the admin dashboard, with the tracking reference
AdminShip(o) ==
    /\ o \in OrderIds
    /\ orders[o].status = "paid"
    /\ orders' = [orders EXCEPT ![o].status = "shipped", ![o].tracking_number = "set"]
    /\ orderEvents' = StatusEvents(o, orders[o].status, "shipped")
    /\ last' = [op |-> "adminStatus", result |-> "shipped", short |-> FALSE]
    /\ UNCHANGED <<stock, intents, sessions, pendingCreate, deducted, ustTotal, mongoVars,
                   mail, deployed, stockHooks, jobVars>>

\* shipped -> delivered, by the admin dashboard
AdminDeliver(o) ==
    /\ o \in OrderIds
    /\ orders[o].status = "shipped"
    /\ orders' = [orders EXCEPT ![o].status = "delivered"]
    /\ orderEvents' = StatusEvents(o, orders[o].status, "delivered")
    /\ last' = [op |-> "adminStatus", result |-> "delivered", short |-> FALSE]
    /\ UNCHANGED <<stock, intents, sessions, pendingCreate, deducted, ustTotal, mongoVars,
                   mail, deployed, stockHooks, jobVars>>

\* ------------------------------------------------- custom artwork decisions
\* mailOk: whether db.collection('mail').add returns or throws, after the
\* order update has been applied
ApproveCustomArtwork(orderId, mailOk) ==
    IF orderId \notin OrderIds
    THEN /\ last' = [op |-> "approveCustomArtwork", result |-> "not-found", short |-> FALSE]
         /\ UNCHANGED <<fsVars, mongoVars, auxVars>>
    ELSE /\ orders' = [orders EXCEPT ![orderId].customOrderStatus = "approved_mockup"]
         /\ orderEvents' = StatusEvents(orderId, orders[orderId].status, orders[orderId].status)
         /\ mail' = IF mailOk THEN mail (+) SetToBag({OrderMail("custom-artwork-mockup", orderId)}) ELSE mail
         /\ last' = [op |-> "approveCustomArtwork", result |-> IF mailOk THEN "ok" ELSE "internal", short |-> FALSE]
         /\ UNCHANGED <<stock, intents, sessions, pendingCreate, deducted, ustTotal, mongoVars,
                        deployed, stockHooks, jobVars>>

RequestCustomArtworkChanges(orderId, mailOk) ==
    IF orderId \notin OrderIds
    THEN /\ last' = [op |-> "requestCustomArtworkChanges", result |-> "not-found", short |-> FALSE]
         /\ UNCHANGED <<fsVars, mongoVars, auxVars>>
    ELSE /\ orders' = [orders EXCEPT ![orderId].customOrderStatus = "changes_requested"]
         /\ orderEvents' = StatusEvents(orderId, orders[orderId].status, orders[orderId].status)
         /\ mail' = IF mailOk THEN mail (+) SetToBag({OrderMail("custom-artwork-changes-requested", orderId)}) ELSE mail
         /\ last' = [op |-> "requestCustomArtworkChanges", result |-> IF mailOk THEN "ok" ELSE "internal", short |-> FALSE]
         /\ UNCHANGED <<stock, intents, sessions, pendingCreate, deducted, ustTotal, mongoVars,
                        deployed, stockHooks, jobVars>>

RejectCustomArtwork(orderId, mailOk) ==
    IF orderId \notin OrderIds
    THEN /\ last' = [op |-> "rejectCustomArtwork", result |-> "not-found", short |-> FALSE]
         /\ UNCHANGED <<fsVars, mongoVars, auxVars>>
    ELSE /\ orders' = [orders EXCEPT ![orderId].customOrderStatus = "rejected",
                                     ![orderId].status = "cancelled"]
         /\ orderEvents' = StatusEvents(orderId, orders[orderId].status, "cancelled")
         /\ mail' = IF mailOk THEN mail (+) SetToBag({OrderMail("custom-artwork-rejected", orderId)}) ELSE mail
         /\ last' = [op |-> "rejectCustomArtwork", result |-> IF mailOk THEN "ok" ELSE "internal", short |-> FALSE]
         /\ UNCHANGED <<stock, intents, sessions, pendingCreate, deducted, ustTotal, mongoVars,
                        deployed, stockHooks, jobVars>>

\* -------------------------------------------------- updateStockTransaction
\* step 1 of the transaction: the first listed product that is missing or short
RECURSIVE FirstShort(_, _, _)
FirstShort(items, snap, i) ==
    IF i > Len(items) THEN 0
    ELSE IF items[i].id \notin Products THEN i
    ELSE IF snap[items[i].id] < items[i].quantity THEN i
    ELSE FirstShort(items, snap, i + 1)

TxError(items, snap) ==
    LET i == FirstShort(items, snap, 1) IN
    IF i = 0 THEN "ok"
    ELSE IF items[i].id \notin Products THEN "not-found"
    ELSE "out-of-resource"

\* step 2: every update is computed from the snapshot read at the start
RECURSIVE TxWrites(_, _, _, _)
TxWrites(stk, items, snap, n) ==
    IF n = 0 THEN stk
    ELSE [TxWrites(stk, items, snap, n - 1) EXCEPT ![items[n].id] = snap[items[n].id] - items[n].quantity]

\* variant: check and write in one loop, so the items before the short one are written
TxStockPartial(items, snap) ==
    LET i == FirstShort(items, snap, 1) IN
    IF i = 0 THEN TxWrites(snap, items, snap, Len(items))
    ELSE TxWrites(snap, items, snap, i - 1)

\* the product stocks the call leaves: an aborted transaction applies no write
TxStock(items, snap) ==
    IF TxError(items, snap) = "ok" THEN TxWrites(snap, items, snap, Len(items)) ELSE snap

\* db.runTransaction: the reads, the check and the writes commit atomically
UpdateStockTransaction(items) ==
    LET err == TxError(items, stock) IN
    /\ stock' = TxStock(items, stock)
    /\ ustTotal' = [p \in Products |-> ustTotal[p] + stock[p] - stock'[p]]
    /\ productEvents' = StockEvents(stock, stock')
    /\ crossings' = Crossed(stock, stock')
    /\ last' = [op |-> "updateStockTransaction", result |-> IF err = "ok" THEN "success" ELSE err,
                short |-> AnyShort(items, stock)]
    /\ UNCHANGED <<orders, intents, sessions, pendingCreate, deducted, mongoVars, mail, deployed,
                   orderEvents, waitlists, notifying, stockLogs, jobVars>>

\* ------------------------------------------------ syncStockToMongo trigger
\* variant: the alert looks at the new stock only
IsLow(old, new) == new < LowStockThreshold

\* newData.stock < 10 && oldData.stock >= 10
IsCrossing(old, new) == new < LowStockThreshold /\ old >= LowStockThreshold

\* oldData.stock === 0 && newData.stock > 0
IsRestock(old, new) == old = 0 /\ new > 0

\* the handler of one product change event, up to notifyWaitlist's read of
\* the waitlist document
SyncStockToMongo(e) ==
    /\ BagIn(e, productEvents)
    /\ productEvents' = productEvents (-) SetToBag({e})
    /\ stockLogs' = stockLogs + 1
    /\ mail' = IF IsCrossing(e.old, e.new) THEN mail (+) SetToBag({LowStockMail(e.id)}) ELSE mail
    /\ notifying' = IF IsRestock(e.old, e.new) /\ e.id \in DOMAIN waitlists
                    THEN notifying (+) SetToBag({[id |-> e.id, emails |-> waitlists[e.id]]})
                    ELSE notifying
    /\ last' = [op |-> "syncStockToMongo", result |-> "ok", short |-> FALSE]
    /\ UNCHANGED <<fsVars, mongoVars, deployed, orderEvents, waitlists, crossings, jobVars>>

\* notifyWaitlist from its batch on: one mail per email read, and the delete
\* of the waitlist document, committed together
NotifyWaitlist(n) ==
    /\ BagIn(n, notifying)
    /\ notifying' = notifying (-) SetToBag({n})
    /\ mail' = mail (+) SetToBag({RestockMail(n.id, email) : email \in n.emails})
    /\ waitlists' = [p \in DOMAIN waitlists \ {n.id} |-> waitlists[p]]
    /\ last' = [op |-> "notifyWaitlist", result |-> "ok", short |-> FALSE]
    /\ UNCHANGED <<fsVars, mongoVars, deployed, productEvents, orderEvents, stockLogs, crossings, jobVars>>

\* the admin adds received units to a product document
AdminRestock(p, quantity) ==
    /\ stock' = [stock EXCEPT ![p] = @ + quantity]
    /\ productEvents' = StockEvents(stock, stock')
    /\ crossings' = Crossed(stock, stock')
    /\ last' = [op |-> "adminRestock", result |-> "ok", short |-> FALSE]
    /\ UNCHANGED <<orders, intents, sessions, pendingCreate, deducted, ustTotal, mongoVars, mail,
                   deployed, orderEvents, waitlists, notifying, stockLogs, jobVars>>

\* ---------------------------------------------- onOrderStatusUpdate trigger
\* variant: the handler goes on whether or not the status has changed
StatusAny(e) == TRUE

\* the negation of `if (newData.status === oldData.status) return null`
StatusChanged(e) == e.new # e.old

\* variant: the handler compares with a status no order ever has
ShippedMisspelt(e) == e.new = "dispatched" /\ e.old # "dispatched"

\* newData.status === 'shipped' && oldData.status !== 'shipped'
ShippedNow(e) == e.new = "shipped" /\ e.old # "shipped"

\* change.after.ref.update({time_delivered: serverTimestamp()}): the write
\* and the onUpdate event it raises, with the document's status at the write
\* before and after
DeliveryWrite(e) ==
    /\ orders' = [orders EXCEPT ![e.id].time_delivered = now]
    /\ orderEvents' = (orderEvents (-) SetToBag({e}))
                          (+) SetToBag({[id |-> e.id, old |-> orders[e.id].status,
                                         new |-> orders[e.id].status]})

\* the handler of one order change event
OnOrderStatusUpdate(e) ==
    /\ BagIn(e, orderEvents)
    /\ IF ~StatusChanged(e)
       THEN /\ orderEvents' = orderEvents (-) SetToBag({e})
            /\ UNCHANGED <<mail, orders>>
       ELSE /\ mail' = IF ShippedNow(e)
                       THEN mail (+) SetToBag({OrderMail("shipping-notification", e.id)})
                       ELSE mail
            /\ IF e.new = "delivered"
               THEN DeliveryWrite(e)
               ELSE /\ orderEvents' = orderEvents (-) SetToBag({e})
                    /\ UNCHANGED orders
    /\ last' = [op |-> "onOrderStatusUpdate", result |-> "ok", short |-> FALSE]
    /\ UNCHANGED <<stock, intents, sessions, pendingCreate, deducted, ustTotal, mongoVars,
                   deployed, stockHooks, jobVars>>

\* ------------------------------------------------------------- the clock
Tick(d) ==
    /\ ticks < MaxTicks
    /\ job = Idle
    /\ now' = now + d
    /\ ticks' = ticks + 1
    /\ last' = [op |-> "tick", result |-> "none", short |-> FALSE]
    /\ UNCHANGED <<fsVars, mongoVars, mail, hookVars, carts, job, faults>>

\* ----------------------------------------------------- checkAbandonedCarts


\* where('updatedAt','<=',thirtyMinsAgo).where('updatedAt','>',twentyFourHoursAgo)
\* .where('status','==','active').where('emailSent','==',false)
FirstRecoveryDue(c) ==
    /\ carts[c].updatedAt <= now - ThirtyMinutes
    /\ carts[c].updatedAt > now - DayMinutes
    /\ carts[c].status = "active"
    /\ carts[c].emailSent = FALSE

\* variant: the second pass takes every cart that got the first reminder
SecondRecoveryAny(c) ==
    /\ carts[c].emailSent
    /\ carts[c].status = "active"
    /\ carts[c].discountEmailSent = FALSE

\* where('firstEmailSentAt','<=',twentyFourHoursAgo).where('status','==','active')
\* .where('discountEmailSent','==',false)
SecondRecoveryDue(c) ==
    /\ carts[c].firstEmailSentAt # NoTime
    /\ carts[c].firstEmailSentAt <= now - DayMinutes
    /\ carts[c].status = "active"
    /\ carts[c].discountEmailSent = FALSE

\* variant: the flag is written before the mail is enqueued
FlagFirstSteps == <<"flag", "mail">>

\* the two awaited writes for one document, in program order
DocSteps == <<"mail", "flag">>

\* the run after the step job.pc of its first document
AfterStep ==
    IF job.pc < Len(DocSteps) THEN [job EXCEPT !.pc = @ + 1]
    ELSE [job EXCEPT !.docs = Tail(@), !.pc = 1]

\* the scheduler starts a run: the first query
CheckAbandonedCarts ==
    /\ job = Idle
    /\ job' = [name |-> "checkAbandonedCarts", pass |-> 1, docs |-> SelectSeq(CartOrder, FirstRecoveryDue), pc |-> 1]
    /\ last' = [op |-> "checkAbandonedCarts", result |-> "started", short |-> FALSE]
    /\ UNCHANGED <<fsVars, mongoVars, mail, hookVars, carts, now, ticks, faults>>

\* one awaited write of the first loop; ok: whether the write returns or throws
FirstRecoveryStep(ok) ==
    LET c == Head(job.docs) IN
    /\ job.name = "checkAbandonedCarts"
    /\ job.pass = 1
    /\ job.docs # <<>>
    /\ ok \/ faults < MaxFaults
    /\ faults' = IF carts[c].email /\ ~ok THEN faults + 1 ELSE faults
    /\ IF ~carts[c].email
       THEN /\ job' = [job EXCEPT !.docs = Tail(@), !.pc = 1]
            /\ last' = [op |-> "checkAbandonedCarts", result |-> "skipped", short |-> FALSE]
            /\ UNCHANGED <<mail, carts>>
       ELSE IF ~ok
       THEN /\ job' = Idle
            /\ last' = [op |-> "checkAbandonedCarts", result |-> "error", short |-> FALSE]
            /\ UNCHANGED <<mail, carts>>
       ELSE /\ job' = AfterStep
            /\ last' = [op |-> "checkAbandonedCarts", result |-> DocSteps[job.pc], short |-> FALSE]
            /\ IF DocSteps[job.pc] = "mail"
               THEN /\ mail' = mail (+) SetToBag({CartMail("abandoned-cart-1", c)})
                    /\ UNCHANGED carts
               ELSE /\ carts' = [carts EXCEPT ![c].emailSent = TRUE, ![c].firstEmailSentAt = now]
                    /\ UNCHANGED mail
    /\ UNCHANGED <<fsVars, mongoVars, hookVars, now, ticks>>

\* the first loop is done: the second query
SecondRecoveryQuery ==
    /\ job.name = "checkAbandonedCarts"
    /\ job.pass = 1
    /\ job.docs = <<>>
    /\ job' = [job EXCEPT !.pass = 2, !.docs = SelectSeq(CartOrder, SecondRecoveryDue), !.pc = 1]
    /\ last' = [op |-> "checkAbandonedCarts", result |-> "second-pass", short |-> FALSE]
    /\ UNCHANGED <<fsVars, mongoVars, mail, hookVars, carts, now, ticks, faults>>

\* one awaited write of the second loop
SecondRecoveryStep(ok) ==
    LET c == Head(job.docs) IN
    /\ job.name = "checkAbandonedCarts"
    /\ job.pass = 2
    /\ job.docs # <<>>
    /\ ok \/ faults < MaxFaults
    /\ faults' = IF ok THEN faults ELSE faults + 1
    /\ IF ~ok
       THEN /\ job' = Idle
            /\ last' = [op |-> "checkAbandonedCarts", result |-> "error", short |-> FALSE]
            /\ UNCHANGED <<mail, carts>>
       ELSE /\ job' = AfterStep
            /\ last' = [op |-> "checkAbandonedCarts", result |-> DocSteps[job.pc], short |-> FALSE]
            /\ IF DocSteps[job.pc] = "mail"
               THEN /\ mail' = mail (+) SetToBag({CartMail("abandoned-cart-2", c)})
                    /\ UNCHANGED carts
               ELSE /\ carts' = [carts EXCEPT ![c].discountEmailSent = TRUE]
                    /\ UNCHANGED mail
    /\ UNCHANGED <<fsVars, mongoVars, hookVars, now, ticks>>

\* the second loop is done: the run returns
CheckAbandonedCartsDone ==
    /\ job.name = "checkAbandonedCarts"
    /\ job.pass = 2
    /\ job.docs = <<>>
    /\ job' = Idle
    /\ last' = [op |-> "checkAbandonedCarts", result |-> "ok", short |-> FALSE]
    /\ UNCHANGED <<fsVars, mongoVars, mail, hookVars, carts, now, ticks, faults>>

\* the instance running the scheduled function is killed
Crash ==
    /\ job # Idle
    /\ faults < MaxFaults
    /\ job' = Idle
    /\ faults' = faults + 1
    /\ last' = [op |-> "crash", result |-> "none", short |-> FALSE]
    /\ UNCHANGED <<fsVars, mongoVars, mail, hookVars, carts, now, ticks>>

\* ------------------------------------------------------ sendReviewRequests
\* where('status','==','delivered').where('time_delivered','<=',sevenDaysAgo)
\* .where('review_requested','==',false): a document without the field
\* review_requested does not match
ReviewDue ==
    {o \in OrderIds :
        /\ orders[o].status = "delivered"
        /\ orders[o].time_delivered # NoTime
        /\ orders[o].time_delivered <= now - ReviewAfterDays * DayMinutes
        /\ orders[o].review_requested = "false"}

\* one run with no failure: a mail and the flag for every selected order
SendReviewRequests ==
    /\ job = Idle
    /\ mail' = mail (+) SetToBag({OrderMail("review-request", o) : o \in ReviewDue})
    /\ orders' = [o \in OrderIds |->
                     IF o \in ReviewDue THEN [orders[o] EXCEPT !.review_requested = "true"]
                     ELSE orders[o]]
    /\ orderEvents' =
          IF "onOrderStatusUpdate" \in deployed
          THEN orderEvents (+) SetToBag({[id |-> o, old |-> orders[o].status, new |-> orders[o].status] :
                                            o \in ReviewDue})
          ELSE orderEvents
    /\ last' = [op |-> "sendReviewRequests", result |-> "ok", short |-> FALSE]
    /\ UNCHANGED <<stock, intents, sessions, pendingCreate, deducted, ustTotal, mongoVars,
                   deployed, stockHooks, jobVars>>

\* ---------------------------------------------- createCheckoutSession
\* subtotal += (item.price || 0) * (item.quantity || 1): the prices are the request's
SessionSubtotal(cart) == Subtotal(cart)

SessionTax(subtotal) == (subtotal * VatPercent) \div 100

SessionShipping(subtotal) == IF subtotal >= SessionFreeShippingFrom THEN 0 ELSE FlatShipping

\* stripeOk: whether stripeClient.checkout.sessions.create returns or throws
CreateCheckoutSession(cart, stripeOk) ==
    LET subtotal == SessionSubtotal(cart)
        tax == SessionTax(subtotal)
        shippingCost == SessionShipping(subtotal)
    IN
    /\ IF Len(cart) = 0
       THEN /\ last' = [op |-> "createCheckoutSession", result |-> "invalid-argument", short |-> FALSE]
            /\ UNCHANGED <<fsVars, mongoVars, auxVars>>
       ELSE /\ orders' = Append(orders,
                   [items |-> cart, subtotal |-> subtotal, tax |-> tax, shipping |-> shippingCost,
                    total |-> subtotal + tax + shippingCost, status |-> "pending",
                    paymentIntentId |-> 0, customOrderStatus |-> "none", time_delivered |-> NoTime,
                    review_requested |-> "absent", tracking_number |-> "absent",
                    userId |-> NoUid])
            /\ sessions' = Append(sessions, IF stripeOk THEN "open" ELSE "none")
            /\ pendingCreate' = pendingCreate \cup {Len(orders) + 1}
            /\ deducted' = Append(deducted, 0)
            /\ last' = [op |-> "createCheckoutSession", result |-> IF stripeOk THEN "ok" ELSE "internal", short |-> FALSE]
            /\ UNCHANGED <<stock, intents, ustTotal, mongoVars, auxVars>>

\* the customer pays on the hosted checkout page
StripeCompleteSession(o) ==
    /\ o \in OrderIds
    /\ sessions[o] = "open"
    /\ sessions' = [sessions EXCEPT ![o] = "completed"]
    /\ last' = [op |-> "stripe", result |-> "completed", short |-> FALSE]
    /\ UNCHANGED <<stock, orders, intents, pendingCreate, deducted, ustTotal, mongoVars, auxVars>>

\* ------------------------------------------------------------ stripeWebhook
\* event types the endpoint receives
EventTypes == {"checkout.session.completed", "payment_intent.succeeded"}

\* session.metadata.orderId of an event that carries none
NoOrder == 0

\* the events Stripe has signed with the webhook secret: a
\* checkout.session.completed event exists only for a completed session (of
\* an order, or of a session created without order metadata), and Stripe may
\* deliver it more than once
Signed(type, o) ==
    type = "checkout.session.completed"
        => (o = NoOrder \/ (o \in OrderIds /\ sessions[o] = "completed"))

\* variant: the event is parsed without checking its signature
SignatureIgnored(sigOk) == TRUE

\* constructEvent(req.rawBody, sig, webhookSecret) returns, or throws
SignatureVerified(sigOk) == sigOk

\* one request to the endpoint: an event of a type, with an order id in its
\* session metadata; sigOk: whether its signature matches the secret
StripeWebhook(type, o, sigOk) ==
    /\ sigOk => Signed(type, o)
    /\ IF ~SignatureVerified(sigOk)
       THEN /\ last' = [op |-> "stripeWebhook", result |-> "400", short |-> FALSE]
            /\ UNCHANGED <<fsVars, mongoVars, auxVars>>
       ELSE IF type = "checkout.session.completed" /\ o # NoOrder
       THEN IF o \in OrderIds
            THEN /\ orders' = [orders EXCEPT ![o].status = "paid"]
                 /\ orderEvents' = StatusEvents(o, orders[o].status, "paid")
                 /\ last' = [op |-> "stripeWebhook", result |-> "200", short |-> FALSE]
                 /\ UNCHANGED <<stock, intents, sessions, pendingCreate, deducted, ustTotal, mongoVars,
                                mail, deployed, stockHooks, jobVars>>
            ELSE /\ last' = [op |-> "stripeWebhook", result |-> "500", short |-> FALSE]
                 /\ UNCHANGED <<fsVars, mongoVars, auxVars>>
       ELSE /\ last' = [op |-> "stripeWebhook", result |-> "200", short |-> FALSE]
            /\ UNCHANGED <<fsVars, mongoVars, auxVars>>

\* ------------------------------------------- PATCH /:id/stock (MongoDB)
AdminOperations == {"set", "add", "subtract"}

AdminQuantities == 1 .. MaxAdminQty

\* the stock the handler computes from the document it loaded
NewStock(doc, operation, quantity) ==
    LET s == IF operation = "set" THEN quantity
             ELSE IF operation = "add" THEN doc + quantity
             ELSE doc - quantity
    IN IF s < 0 THEN 0 ELSE s

\* await Product.findById(req.params.id)
AdminFind(a, id, operation, quantity) ==
    /\ adminReq[a].pc = "idle"
    /\ adminCalls < MaxAdminCalls
    /\ adminCalls' = adminCalls + 1
    /\ IF id \notin Products
       THEN /\ last' = [op |-> "patchStock", result |-> "404", short |-> FALSE]
            /\ UNCHANGED <<adminReq>>
       ELSE /\ adminReq' = [adminReq EXCEPT ![a] =
                   [pc |-> "loaded", id |-> id, operation |-> operation, quantity |-> quantity,
                    doc |-> mongoStock[id]]]
            /\ last' = [op |-> "patchStock", result |-> "loaded", short |-> FALSE]
    /\ UNCHANGED <<fsVars, mongoStock, added, onlyAdds, webVars, auxVars>>

\* await product.save(): writes the stock computed from the loaded document
AdminSave(a) ==
    LET r == adminReq[a] IN
    /\ r.pc = "loaded"
    /\ mongoStock' = [mongoStock EXCEPT ![r.id] = NewStock(r.doc, r.operation, r.quantity)]
    /\ adminReq' = [adminReq EXCEPT ![a] = [pc |-> "idle", id |-> "pA", operation |-> "set", quantity |-> 0, doc |-> 0]]
    /\ added' = IF r.operation = "add" THEN [added EXCEPT ![r.id] = @ + r.quantity] ELSE added
    /\ onlyAdds' = (onlyAdds /\ r.operation = "add")
    /\ last' = [op |-> "patchStock", result |-> "200", short |-> FALSE]
    /\ UNCHANGED <<fsVars, adminCalls, webVars, auxVars>>

\* ------------------------------------------------- POST /contact/submit
\* req.user of a request no authentication middleware has handled
NoUser == "undefined"

Users == {"u1", "u2"}

\* the clients of the public routes, by address
Clients == {"ip1", "ip2"}

\* userRequests.filter(timestamp => now - timestamp < windowMs)
ValidRequests(user, windowMs) ==
    IF user \in DOMAIN requests
    THEN SelectSeq(requests[user], LAMBDA timestamp : now - timestamp < windowMs)
    ELSE <<>>

\* the middleware userRateLimit(maxRequests, windowMs) for a request whose
\* req.user is user: "next" or "429"
RateLimitAnswer(user, maxRequests, windowMs) ==
    IF user = NoUser THEN "next"
    ELSE IF Len(ValidRequests(user, windowMs)) >= maxRequests THEN "429"
    ELSE "next"

\* the Map after the middleware has handled the request
RateLimitMap(user, maxRequests, windowMs) ==
    IF user = NoUser THEN requests
    ELSE LET valid == ValidRequests(user, windowMs)
             known == [u \in DOMAIN requests \cup {user} |->
                          IF u \in DOMAIN requests THEN requests[u] ELSE <<>>]
         IN IF Len(valid) >= maxRequests THEN known
            ELSE [known EXCEPT ![user] = Append(valid, now)]

\* router.post('/submit', userRateLimit(5, 60 * 1000), handler): no
\* middleware before the limiter sets req.user.  valid: whether the body
\* passes the Joi schema
ContactSubmit(client, valid) ==
    LET user == NoUser
        answer == RateLimitAnswer(user, ContactLimit, ContactWindow)
    IN
    /\ requests' = RateLimitMap(user, ContactLimit, ContactWindow)
    /\ IF answer = "429"
       THEN /\ last' = [op |-> "contactSubmit", result |-> "429", short |-> FALSE]
            /\ UNCHANGED contacts
       ELSE IF ~valid
       THEN /\ last' = [op |-> "contactSubmit", result |-> "400", short |-> FALSE]
            /\ UNCHANGED contacts
       ELSE /\ contacts' = contacts (+) SetToBag({[client |-> client, at |-> now]})
            /\ last' = [op |-> "contactSubmit", result |-> "201", short |-> FALSE]
    /\ UNCHANGED <<fsVars, stockRouteVars, loginVars, reviewVars, auxVars>>

\* the limiter's hourly setInterval callback: drops the expired timestamps
\* and the users left without any
LimiterCleanup ==
    /\ requests' = [u \in {v \in DOMAIN requests : ValidRequests(v, ContactWindow) # <<>>} |->
                       ValidRequests(u, ContactWindow)]
    /\ last' = [op |-> "limiterCleanup", result |-> "none", short |-> FALSE]
    /\ UNCHANGED <<fsVars, stockRouteVars, contacts, loginVars, reviewVars, auxVars>>

\* -------------------------------------------------- login attempt tracking

\* variant: the account is locked only after one attempt more
LockDueLate(count) == count > MaxLoginAttempts

\* attempt.count >= config.security.maxLoginAttempts
LockDue(count) == count >= MaxLoginAttempts

\* attempt.lockedUntil && now < attempt.lockedUntil
LockedNow(attempt) == attempt.lockedUntil # NoTime /\ now < attempt.lockedUntil

\* attempt.count = 0; attempt.lockedUntil = null, once the lockout period has passed
AfterLockout(attempt) ==
    IF attempt.lockedUntil # NoTime /\ now >= attempt.lockedUntil
    THEN [attempt EXCEPT !.count = 0, !.lockedUntil = NoTime]
    ELSE attempt

\* the Map with the entry of key set
WithAttempt(key, attempt) ==
    [k \in DOMAIN loginAttempts \cup {key} |-> IF k = key THEN attempt ELSE loginAttempts[k]]

\* a failed login for identifier
TrackLoginAttempt(identifier) ==
    LET key == ToLowerCase(identifier) IN
    /\ tracked[key] < MaxTracked
    /\ tracked' = [tracked EXCEPT ![key] = @ + 1]
    /\ IF key \notin DOMAIN loginAttempts
       THEN /\ loginAttempts' = WithAttempt(key, [count |-> 1, lastAttempt |-> now, lockedUntil |-> NoTime])
            /\ last' = [op |-> "trackLoginAttempt", result |-> "unlocked", short |-> FALSE]
       ELSE IF LockedNow(loginAttempts[key])
       THEN /\ UNCHANGED loginAttempts
            /\ last' = [op |-> "trackLoginAttempt", result |-> "locked", short |-> FALSE]
       ELSE LET reset == AfterLockout(loginAttempts[key])
                attempt == [reset EXCEPT !.count = @ + 1, !.lastAttempt = now]
            IN IF LockDue(attempt.count)
               THEN /\ loginAttempts' = WithAttempt(key, [attempt EXCEPT !.lockedUntil = now + LockoutMinutes])
                    /\ last' = [op |-> "trackLoginAttempt", result |-> "locked", short |-> FALSE]
               ELSE /\ loginAttempts' = WithAttempt(key, attempt)
                    /\ last' = [op |-> "trackLoginAttempt", result |-> "unlocked", short |-> FALSE]
    /\ UNCHANGED <<fsVars, stockRouteVars, limiterVars, reviewVars, auxVars>>

\* a successful login for identifier
ResetLoginAttempts(identifier) ==
    LET key == ToLowerCase(identifier) IN
    /\ loginAttempts' = [k \in DOMAIN loginAttempts \ {key} |-> loginAttempts[k]]
    /\ tracked' = [tracked EXCEPT ![key] = 0]
    /\ last' = [op |-> "resetLoginAttempts", result |-> "none", short |-> FALSE]
    /\ UNCHANGED <<fsVars, stockRouteVars, limiterVars, reviewVars, auxVars>>

IsAccountLocked(identifier) ==
    LET key == ToLowerCase(identifier) IN
    /\ IF key \notin DOMAIN loginAttempts
       THEN /\ UNCHANGED loginAttempts
            /\ last' = [op |-> "isAccountLocked", result |-> "unlocked", short |-> FALSE]
       ELSE IF loginAttempts[key].lockedUntil = NoTime
       THEN /\ UNCHANGED loginAttempts
            /\ last' = [op |-> "isAccountLocked", result |-> "unlocked", short |-> FALSE]
       ELSE IF now < loginAttempts[key].lockedUntil
       THEN /\ UNCHANGED loginAttempts
            /\ last' = [op |-> "isAccountLocked", result |-> "locked", short |-> FALSE]
       ELSE /\ loginAttempts' = WithAttempt(key, AfterLockout(loginAttempts[key]))
            /\ last' = [op |-> "isAccountLocked", result |-> "unlocked", short |-> FALSE]
    /\ UNCHANGED <<fsVars, stockRouteVars, limiterVars, reviewVars, tracked, auxVars>>

\* the hourly setInterval callback: deletes the entries whose last attempt
\* is older than the lockout duration.  Its first firing is not tied to the
\* clock's origin.
LoginCleanup ==
    /\ loginAttempts' = [k \in {j \in DOMAIN loginAttempts :
                                   ~(now - loginAttempts[j].lastAttempt > LockoutMinutes)} |->
                            loginAttempts[k]]
    /\ last' = [op |-> "loginCleanup", result |-> "none", short |-> FALSE]
    /\ UNCHANGED <<fsVars, stockRouteVars, limiterVars, reviewVars, tracked, auxVars>>

\* --------------------------------------------------------- product reviews
\* the ratings a request may carry, in half stars: none, 1.5, 5 and 5.5
HalfStars == {0, 3, 10, 11}

\* req.user.id of the requests that carry a token
Members == Users \cup {"a1"}

\* !rating || rating < 1 || rating > 5
RatingRejected(stars) == stars = 0 \/ stars < 2 \/ stars > 10

\* parseInt(rating)
ParseInt(stars) == 2 * (stars \div 2)

RECURSIVE TotalRating(_)
\* product.reviews.reduce((sum, r) => sum + r.rating, 0)
TotalRating(reviews) ==
    IF reviews = <<>> THEN 0 ELSE Head(reviews).rating + TotalRating(Tail(reviews))

\* product.reviews.find(r => r.user.toString() === req.user.id)
ExistingReview(reviews, user) == \E i \in 1 .. Len(reviews) : reviews[i].user = user

\* product.reviews.id(reviewId): its position, or 0
ReviewAt(reviews, id) ==
    IF \E i \in 1 .. Len(reviews) : reviews[i].id = id
    THEN CHOOSE i \in 1 .. Len(reviews) : reviews[i].id = id
    ELSE 0

\* product.reviews.pull(reviewId)
Pull(reviews, id) == SelectSeq(reviews, LAMBDA r : r.id # id)

\* the request a handler leaves between its last read and product.save():
\* the change to the reviews array and the rating computed from the loaded
\* document
Loaded(op, product, review, after, count) ==
    [pc |-> "loaded", op |-> op, product |-> product, review |-> review,
     average |-> IF Len(after) > 0 THEN <<TotalRating(after), Len(after)>> ELSE <<0, 1>>,
     count |-> count, v |-> productDocs[product].v]

\* a handler's steps up to product.save()
ReviewRequest(slot, op, answer, request) ==
    /\ reviewReq[slot].pc = "idle"
    /\ reviewCalls < MaxReviewCalls
    /\ reviewCalls' = reviewCalls + 1
    /\ reviewReq' = IF answer = "loaded" THEN [reviewReq EXCEPT ![slot] = request] ELSE reviewReq
    /\ last' = [op |-> op, result |-> answer, short |-> FALSE]
    /\ UNCHANGED <<fsVars, stockRouteVars, limiterVars, loginVars, productDocs, completed,
                   productReviews, auxVars>>

\* Order.findOne({user, 'items.product': productId, 'payment.status': 'completed'})
HasPurchased(user, product) == <<user, product>> \in completed

\* router.post('/:productId/reviews', authenticateToken, handler)
AddReview(slot, user, product, stars) ==
    LET review == [id |-> reviewCalls + 1, user |-> user, rating |-> ParseInt(stars)]
        after == Append(productDocs[product].reviews, review)
        answer == IF user = NoUser THEN "401"
                  ELSE IF RatingRejected(stars) THEN "400"
                  ELSE IF product \notin Products THEN "404"
                  ELSE IF ExistingReview(productDocs[product].reviews, user) THEN "400"
                  ELSE IF ~HasPurchased(user, product) THEN "403"
                  ELSE "loaded"
    IN ReviewRequest(slot, "addReview", answer, Loaded("addReview", product, review, after, Len(after)))

\* router.post('/:id/reviews', authenticateToken, handler) of the products routes
AddProductReview(slot, user, product, stars) ==
    LET review == [id |-> reviewCalls + 1, user |-> user, rating |-> stars]
        after == Append(productDocs[product].reviews, review)
        answer == IF user = NoUser THEN "401"
                  ELSE IF RatingRejected(stars) THEN "400"
                  ELSE IF product \notin Products THEN "404"
                  ELSE IF ExistingReview(productDocs[product].reviews, user) THEN "400"
                  ELSE "loaded"
    IN ReviewRequest(slot, "addProductReview", answer,
                     Loaded("addProductReview", product, review, after, Len(after)))

\* router.put('/:productId/reviews/:reviewId', authenticateToken, handler);
\* rating.count is not assigned
UpdateReview(slot, user, product, id, stars) ==
    LET reviews == productDocs[product].reviews
        i == ReviewAt(reviews, id)
        review == [reviews[i] EXCEPT !.rating = IF stars = 0 THEN @ ELSE ParseInt(stars)]
        after == [reviews EXCEPT ![i] = review]
        answer == IF user = NoUser THEN "401"
                  ELSE IF product \notin Products THEN "404"
                  ELSE IF i = 0 THEN "404"
                  ELSE IF reviews[i].user # user THEN "403"
                  ELSE IF stars # 0 /\ (stars < 2 \/ stars > 10) THEN "400"
                  ELSE "loaded"
    IN ReviewRequest(slot, "updateReview", answer,
                     Loaded("updateReview", product, review, after, productDocs[product].rating.count))

\* router.delete('/:productId/reviews/:reviewId', authenticateToken, handler)
DeleteReview(slot, user, product, id) ==
    LET reviews == productDocs[product].reviews
        i == ReviewAt(reviews, id)
        after == Pull(reviews, id)
        answer == IF user = NoUser THEN "401"
                  ELSE IF product \notin Products THEN "404"
                  ELSE IF i = 0 THEN "404"
                  ELSE IF reviews[i].user # user /\ user \notin Admins THEN "403"
                  ELSE "loaded"
    IN ReviewRequest(slot, "deleteReview", answer,
                     Loaded("deleteReview", product, reviews[i], after, Len(after)))

\* router.delete('/admin/:productId/reviews/:reviewId', authenticateToken, isAdmin, handler)
AdminDeleteReview(slot, user, product, id) ==
    LET reviews == productDocs[product].reviews
        after == Pull(reviews, id)
        answer == IF user = NoUser THEN "401"
                  ELSE IF user \notin Admins THEN "403"
                  ELSE IF product \notin Products THEN "404"
                  ELSE "loaded"
    IN ReviewRequest(slot, "deleteReview", answer,
                     Loaded("deleteReview", product, [NoRequest.review EXCEPT !.id = id], after,
                            Len(after)))

\* the document after the update that save() sends: $push of the new review,
\* $set of the changed review's rating, or $pull of the review, with $set of
\* the rating fields the handler assigned
Saved(doc, r) ==
    IF r.op \in {"addReview", "addProductReview"}
    THEN [reviews |-> Append(doc.reviews, r.review),
          rating |-> [average |-> r.average, count |-> r.count], v |-> doc.v + 1]
    ELSE IF r.op = "updateReview"
    THEN [reviews |-> [i \in 1 .. Len(doc.reviews) |->
                          IF doc.reviews[i].id = r.review.id THEN r.review ELSE doc.reviews[i]],
          rating |-> [average |-> r.average, count |-> doc.rating.count], v |-> doc.v]
    ELSE [reviews |-> Pull(doc.reviews, r.review.id),
          rating |-> [average |-> r.average, count |-> r.count], v |-> doc.v + 1]

\* await product.save().  A $push is sent without a condition on the version
\* key; the update of an array element or a $pull names the version it loaded
\* and fails with a VersionError when the array was changed in between.
ReviewSave(slot) ==
    LET r == reviewReq[slot]
        doc == productDocs[r.product]
        stale == r.op \in {"updateReview", "deleteReview"} /\ doc.v # r.v
    IN
    /\ r.pc = "loaded"
    /\ reviewReq' = [reviewReq EXCEPT ![slot] = NoRequest]
    /\ productDocs' = IF stale THEN productDocs ELSE [productDocs EXCEPT ![r.product] = Saved(doc, r)]
    /\ last' = [op |-> r.op, result |-> IF stale THEN "500" ELSE "200", short |-> FALSE]
    /\ UNCHANGED <<fsVars, stockRouteVars, limiterVars, loginVars, completed, reviewCalls,
                   productReviews, auxVars>>

\* an order of the user that contains the product has its payment completed
CompleteOrder(user, product) ==
    /\ <<user, product>> \notin completed
    /\ completed' = completed \cup {<<user, product>>}
    /\ last' = [op |-> "completeOrder", result |-> "ok", short |-> FALSE]
    /\ UNCHANGED <<fsVars, stockRouteVars, limiterVars, loginVars, productDocs, reviewReq,
                   reviewCalls, productReviews, auxVars>>

\* the orders query of submitReview and the scan of their items
Verified(uid, productId) ==
    \E o \in OrderIds :
        /\ orders[o].userId = uid
        /\ orders[o].status = "delivered"
        /\ \E i \in 1 .. Len(orders[o].items) : orders[o].items[i].productId = productId

\* exports.submitReview
SubmitReview(uid, productId, stars) ==
    LET answer == IF uid = NoUid THEN "unauthenticated"
                  ELSE IF ~Verified(uid, productId) THEN "permission-denied"
                  ELSE "ok"
    IN
    /\ productReviews' = IF answer = "ok"
                         THEN Append(productReviews,
                                     [productId |-> productId, userId |-> uid, rating |-> stars])
                         ELSE productReviews
    /\ last' = [op |-> "submitReview", result |-> answer, short |-> FALSE]
    /\ UNCHANGED <<fsVars, stockRouteVars, limiterVars, loginVars, productDocs, completed,
                   reviewReq, reviewCalls, auxVars>>

\* ------------------------------------------------------------ the caller
\* the credential a request presents: none, a customer's or an admin's
Callers == {"anonymous", "customer", "admin"}

\* authenticateToken, then isAdmin: the status the middleware answers, or
\* "next" when the request reaches the route handler
AdminGate(caller) ==
    IF caller = "anonymous" THEN "401"
    ELSE IF caller # "admin" THEN "403"
    ELSE "next"

\* router.patch('/:id/stock', authenticateToken, isAdmin, handler)
PatchStock(caller, a, id, operation, quantity) ==
    IF AdminGate(caller) # "next"
    THEN /\ last' = [op |-> "patchStock", result |-> AdminGate(caller), short |-> FALSE]
         /\ UNCHANGED <<fsVars, mongoVars, auxVars>>
    ELSE AdminFind(a, id, operation, quantity)

\* the callable handlers get the caller in context.auth and never read it
UpdateStockTransactionAs(caller, items) == UpdateStockTransaction(items)

ApproveCustomArtworkAs(caller, orderId, mailOk) == ApproveCustomArtwork(orderId, mailOk)

RequestCustomArtworkChangesAs(caller, orderId, mailOk) == RequestCustomArtworkChanges(orderId, mailOk)

RejectCustomArtworkAs(caller, orderId, mailOk) == RejectCustomArtwork(orderId, mailOk)

\* ------------------------------------------------------- specifications
\* the artwork decisions of a run enqueue a bounded number of mails
MailRoom == BagCardinality(mail) < MaxMails
\* order documents a run may create
MaxLifecycleOrders == MaxOrders + 1

OrderRange == 1 .. MaxLifecycleOrders

\* checkout and inventory
Next ==
    \/ /\ Len(orders) < MaxOrders
       /\ \E cart \in Carts, stripeOk \in BOOLEAN : CreatePaymentIntent(cart, stripeOk)
    \/ \E o \in OrderRange, mailOk \in BOOLEAN : OnOrderCreated(o, mailOk)
    \/ \E items \in StockLists : UpdateStockTransaction(items)

Spec == Init /\ [][Next]_vars

\* checkout, payment and confirmation
NextPayment ==
    \/ /\ Len(orders) < MaxOrders
       /\ \E cart \in Carts, stripeOk \in BOOLEAN : CreatePaymentIntent(cart, stripeOk)
    \/ \E o \in OrderRange, mailOk \in BOOLEAN : OnOrderCreated(o, mailOk)
    \/ \E i \in OrderRange : StripeSettle(i)
    \/ \E o \in OrderRange, i \in OrderRange : ConfirmOrder(o, i)

SpecPayment == Init /\ [][NextPayment]_vars

\* the order lifecycle of two or more orders, with one-line carts
SmallCarts == {c \in Carts : Len(c) = 1}

NextLifecycle ==
    \/ /\ Len(orders) < MaxLifecycleOrders
       /\ \E cart \in SmallCarts, stripeOk \in BOOLEAN : CreatePaymentIntent(cart, stripeOk)
    \/ \E o \in OrderRange, mailOk \in BOOLEAN : OnOrderCreated(o, mailOk)
    \/ \E i \in OrderRange : StripeSettle(i)
    \/ \E i \in OrderRange : StripeCancel(i)
    \/ \E o \in 1 .. MaxLifecycleOrders + 1, i \in 1 .. MaxLifecycleOrders + 1 : ConfirmOrder(o, i)
    \/ \E o \in OrderRange : AdminShip(o)
    \/ \E o \in OrderRange : AdminDeliver(o)
    \/ \E o \in 1 .. MaxLifecycleOrders + 1, mailOk \in BOOLEAN :
          (mailOk => MailRoom) /\ RejectCustomArtwork(o, mailOk)

SpecLifecycle == Init /\ [][NextLifecycle]_vars

\* checkout sessions and the payment webhook
NextSession ==
    \/ /\ Len(orders) < MaxLifecycleOrders
       /\ \E cart \in SmallCarts \cup {<<>>}, stripeOk \in BOOLEAN : CreateCheckoutSession(cart, stripeOk)
    \/ \E o \in OrderRange, mailOk \in BOOLEAN : OnOrderCreated(o, mailOk)
    \/ \E o \in OrderRange : StripeCompleteSession(o)
    \/ \E type \in EventTypes, o \in {NoOrder} \cup OrderRange, sigOk \in BOOLEAN :
          StripeWebhook(type, o, sigOk)
    \/ \E o \in OrderRange : AdminShip(o)
    \/ \E o \in OrderRange : AdminDeliver(o)

SpecSession == Init /\ [][NextSession]_vars

\* the admin stock route, two requests in flight
NextAdmin ==
    \/ \E a \in Admins, id \in ProductIds, operation \in AdminOperations, quantity \in AdminQuantities :
          AdminFind(a, id, operation, quantity)
    \/ \E a \in Admins : AdminSave(a)

SpecAdmin == Init /\ [][NextAdmin]_vars

\* payment confirmation and the custom artwork decisions
NextArtwork ==
    \/ /\ Len(orders) < MaxOrders
       /\ \E cart \in SmallCarts, stripeOk \in BOOLEAN : CreatePaymentIntent(cart, stripeOk)
    \/ \E o \in OrderRange, mailOk \in BOOLEAN : OnOrderCreated(o, mailOk)
    \/ \E i \in OrderRange : StripeSettle(i)
    \/ \E o \in OrderRange, i \in OrderRange : ConfirmOrder(o, i)
    \/ \E o \in OrderRange, mailOk \in BOOLEAN :
          (mailOk => MailRoom) /\ ApproveCustomArtwork(o, mailOk)
    \/ \E o \in OrderRange, mailOk \in BOOLEAN :
          (mailOk => MailRoom) /\ RequestCustomArtworkChanges(o, mailOk)
    \/ \E o \in OrderRange, mailOk \in BOOLEAN :
          (mailOk => MailRoom) /\ RejectCustomArtwork(o, mailOk)

SpecArtwork == Init /\ [][NextArtwork]_vars

\* one order from checkout to delivery, and the daily review-request run
ReviewSteps == {(ReviewAfterDays - 1) * DayMinutes, DayMinutes}

ReviewCarts == {c \in SmallCarts : c[1].productId = "pA" /\ c[1].quantity = 1}

InitReview ==
    /\ InitStore
    /\ stock = InitStock
    /\ deployed = {"onOrderStatusUpdate"}
    /\ waitlists = NoDocs
    /\ carts = NoDocs

NextReview ==
    \/ /\ Len(orders) < MaxOrders
       /\ \E cart \in ReviewCarts, stripeOk \in BOOLEAN : CreatePaymentIntent(cart, stripeOk)
    \/ \E o \in OrderRange, mailOk \in BOOLEAN : OnOrderCreated(o, mailOk)
    \/ \E i \in OrderRange : StripeSettle(i)
    \/ \E o \in OrderIds :
          orders[o].status = "pending_payment" /\ ConfirmOrder(o, orders[o].paymentIntentId)
    \/ \E o \in OrderRange : AdminShip(o)
    \/ \E o \in OrderRange : AdminDeliver(o)
    \/ \E e \in BagToSet(orderEvents) : OnOrderStatusUpdate(e)
    \/ \E d \in ReviewSteps : Tick(d)
    \/ SendReviewRequests

SpecReview == InitReview /\ [][NextReview]_vars

\* the abandoned-cart sweep over two carts saved at time 0
CartDocs ==
    [updatedAt : {0}, status : {"active"}, email : BOOLEAN, emailSent : {FALSE},
     firstEmailSentAt : {NoTime}, discountEmailSent : {FALSE}]

CartSteps == {ThirtyMinutes, DayMinutes - ThirtyMinutes, DayMinutes}

InitCarts ==
    /\ InitStore
    /\ stock = InitStock
    /\ deployed = {}
    /\ waitlists = NoDocs
    /\ carts \in [CartIds -> CartDocs]

\* runs that are neither killed nor hit a failing write
NextCarts ==
    \/ \E d \in CartSteps : Tick(d)
    \/ CheckAbandonedCarts
    \/ FirstRecoveryStep(TRUE)
    \/ SecondRecoveryQuery
    \/ SecondRecoveryStep(TRUE)
    \/ CheckAbandonedCartsDone

SpecCarts == InitCarts /\ [][NextCarts]_vars

\* runs that may be killed or hit a failing write at any step
NextCartsFaulty ==
    \/ \E d \in CartSteps : Tick(d)
    \/ CheckAbandonedCarts
    \/ \E ok \in BOOLEAN : FirstRecoveryStep(ok)
    \/ SecondRecoveryQuery
    \/ \E ok \in BOOLEAN : SecondRecoveryStep(ok)
    \/ CheckAbandonedCartsDone
    \/ Crash

SpecCartsFaulty == InitCarts /\ [][NextCartsFaulty]_vars

\* product change events: the low-stock alert and the restock notification
HookStocks == {0, LowStockThreshold, LowStockThreshold + 1}

\* a waitlist document holds both emails
WaitlistDocs == {Emails}

InitHooks ==
    /\ InitStore
    /\ stock \in [Products -> HookStocks]
    /\ deployed = {"syncStockToMongo"}
    /\ \E ps \in SUBSET Products : waitlists \in [ps -> WaitlistDocs]
    /\ carts = NoDocs

\* product change events raised so far
StockEventCount == stockLogs + BagCardinality(productEvents)

SingleLists == {l \in StockLists : Len(l) = 1}

NextHooks ==
    \/ /\ StockEventCount < MaxStockEvents
       /\ \E items \in SingleLists : UpdateStockTransaction(items)
    \/ /\ StockEventCount < MaxStockEvents
       /\ \E p \in Products, quantity \in Quantities :
             stock[p] + quantity <= LowStockThreshold + 1 /\ AdminRestock(p, quantity)
    \/ \E e \in BagToSet(productEvents) : SyncStockToMongo(e)
    \/ \E n \in BagToSet(notifying) : NotifyWaitlist(n)

SpecHooks == InitHooks /\ [][NextHooks]_vars

\* checkout with every product in stock for every cart line
InitStocked ==
    /\ InitStore
    /\ stock \in [Products -> MaxQty .. MaxQty + 1]
    /\ deployed = {}
    /\ waitlists = NoDocs
    /\ carts = NoDocs

NextPricing ==
    \/ /\ Len(orders) < MaxOrders
       /\ \E cart \in Carts, stripeOk \in BOOLEAN : CreatePaymentIntent(cart, stripeOk)
    \/ \E o \in OrderRange, mailOk \in BOOLEAN : OnOrderCreated(o, mailOk)

SpecPricing == InitStocked /\ [][NextPricing]_vars

\* checkout sessions of up to MaxOrders orders and the webhook endpoint,
\* which anyone can post to
NextWebhook ==
    \/ /\ Len(orders) < MaxOrders
       /\ \E cart \in SmallCarts \cup {<<>>}, stripeOk \in BOOLEAN : CreateCheckoutSession(cart, stripeOk)
    \/ \E o \in OrderRange, mailOk \in BOOLEAN : OnOrderCreated(o, mailOk)
    \/ \E o \in OrderRange : StripeCompleteSession(o)
    \/ \E type \in EventTypes, o \in {NoOrder} \cup OrderRange, sigOk \in BOOLEAN :
          StripeWebhook(type, o, sigOk)

SpecWebhook == Init /\ [][NextWebhook]_vars

\* failed and successful logins, lock queries, the cleanup and a clock that
\* steps to just before, to and past the end of a lockout
LoginSteps == {1, LockoutMinutes - 1, LockoutMinutes + 1}

NextLogin ==
    \/ \E identifier \in Identifiers : TrackLoginAttempt(identifier)
    \/ \E identifier \in Identifiers : ResetLoginAttempts(identifier)
    \/ \E identifier \in Identifiers : IsAccountLocked(identifier)
    \/ LoginCleanup
    \/ \E d \in LoginSteps : Tick(d)

SpecLogin == Init /\ [][NextLogin]_vars

\* the contact form, two clients, a clock that advances by the window
NextContact ==
    \/ /\ BagCardinality(contacts) < MaxContacts
       /\ \E client \in Clients, valid \in BOOLEAN : ContactSubmit(client, valid)
    \/ LimiterCleanup
    \/ Tick(ContactWindow)

SpecContact == Init /\ [][NextContact]_vars

\* the artwork decisions of a run leave a bounded number of events unhandled
EventRoom == BagCardinality(orderEvents) < MaxOrderEvents

\* one order from checkout to delivery under the status-update trigger, with
\* updates that leave the status as it is
NextShipping ==
    \/ /\ Len(orders) < MaxOrders
       /\ \E cart \in ReviewCarts, stripeOk \in BOOLEAN : CreatePaymentIntent(cart, stripeOk)
    \/ \E o \in OrderRange, mailOk \in BOOLEAN : OnOrderCreated(o, mailOk)
    \/ \E i \in OrderRange : StripeSettle(i)
    \/ \E o \in OrderIds :
          /\ orders[o].status \in {"pending_payment", "paid"}
          /\ ConfirmOrder(o, orders[o].paymentIntentId)
    \/ \E o \in OrderRange : AdminShip(o)
    \/ \E o \in OrderRange : AdminDeliver(o)
    \/ \E o \in OrderIds, mailOk \in BOOLEAN :
          EventRoom /\ (mailOk => MailRoom) /\ ApproveCustomArtwork(o, mailOk)
    \/ \E e \in BagToSet(orderEvents) : OnOrderStatusUpdate(e)

SpecShipping == InitReview /\ [][NextShipping]_vars

\* the admin operations, called with every kind of credential; one request to
\* the stock route
NextAuth ==
    \/ /\ Len(orders) < MaxOrders
       /\ \E cart \in ReviewCarts, stripeOk \in BOOLEAN : CreatePaymentIntent(cart, stripeOk)
    \/ \E o \in OrderRange, mailOk \in BOOLEAN : OnOrderCreated(o, mailOk)
    \/ \E caller \in Callers, items \in SingleLists : UpdateStockTransactionAs(caller, items)
    \/ \E caller \in Callers, o \in OrderRange, mailOk \in BOOLEAN :
          (mailOk => MailRoom) /\ ApproveCustomArtworkAs(caller, o, mailOk)
    \/ \E caller \in Callers, o \in OrderRange, mailOk \in BOOLEAN :
          (mailOk => MailRoom) /\ RequestCustomArtworkChangesAs(caller, o, mailOk)
    \/ \E caller \in Callers, o \in OrderRange, mailOk \in BOOLEAN :
          (mailOk => MailRoom) /\ RejectCustomArtworkAs(caller, o, mailOk)
    \/ \E caller \in Callers, id \in ProductIds, operation \in AdminOperations, quantity \in AdminQuantities :
          adminCalls = 0 /\ PatchStock(caller, "a1", id, operation, quantity)
    \/ AdminSave("a1")

SpecAuth == Init /\ [][NextAuth]_vars

\* the review routes of the Express application on one product, with two
\* requests in flight
ReviewIds == 1 .. MaxReviewCalls

Requesters == Members \cup {NoUser}

NextReviews ==
    \/ \E user \in Users : CompleteOrder(user, "pA")
    \/ \E slot \in Slots, user \in Requesters, stars \in HalfStars :
          AddReview(slot, user, "pA", stars)
    \/ \E slot \in Slots, user \in Requesters, stars \in HalfStars :
          AddProductReview(slot, user, "pA", stars)
    \/ \E slot \in Slots, user \in Requesters, id \in ReviewIds, stars \in HalfStars :
          UpdateReview(slot, user, "pA", id, stars)
    \/ \E slot \in Slots, user \in Requesters, id \in ReviewIds :
          DeleteReview(slot, user, "pA", id)
    \/ \E slot \in Slots, user \in Requesters, id \in ReviewIds :
          AdminDeleteReview(slot, user, "pA", id)
    \/ \E slot \in Slots : ReviewSave(slot)

SpecReviews == Init /\ [][NextReviews]_vars

\* every operation that stores a review, and the orders a reviewer can have:
\* one checkout taken to delivery, and completed payments
Uids == {NoUid, "u1"}

NextVerified ==
    \/ /\ Len(orders) < MaxOrders
       /\ \E uid \in Uids, cart \in ReviewCarts : CreatePaymentIntentAs(uid, cart, TRUE)
    \/ \E i \in OrderRange : StripeSettle(i)
    \/ \E o \in OrderIds :
          orders[o].status = "pending_payment" /\ ConfirmOrder(o, orders[o].paymentIntentId)
    \/ \E o \in OrderRange : AdminShip(o)
    \/ \E o \in OrderRange : AdminDeliver(o)
    \/ /\ Len(productReviews) < MaxSubmitted
       /\ \E uid \in Uids, productId \in Products, stars \in {10} :
             SubmitReview(uid, productId, stars)
    \/ \E user \in Users : CompleteOrder(user, "pA")
    \/ \E user \in Requesters, stars \in {10} :
          AddReview("r1", user, "pA", stars)
    \/ \E user \in Requesters, stars \in {10} :
          AddProductReview("r1", user, "pA", stars)
    \/ \E slot \in Slots : ReviewSave(slot)

SpecVerified == Init /\ [][NextVerified]_vars

\* ============================================================== claims

\* C1: updateStockTransaction is all-or-nothing: a call whose list names a
\* missing product or asks for more than a product's stock fails with
\* not-found / out-of-resource and leaves the stock of every product as it was.
C1_AllOrNothing ==
    [][(last'.op = "updateStockTransaction" /\ last'.short)
          => /\ stock' = stock
             /\ last'.result \in {"not-found", "out-of-resource"}]_vars

\* a transaction was refused for lack of stock after earlier ones had taken stock
C1_Witness ==
    /\ last = [op |-> "updateStockTransaction", result |-> "out-of-resource", short |-> TRUE]
    /\ \E p \in Products : ustTotal[p] > 0
    /\ \E p \in Products : stock[p] > 0

\* C2: stock never goes negative, in Firestore or in MongoDB.
C2_StockNonNegative ==
    \A p \in Products : stock[p] >= 0 /\ mongoStock[p] >= 0

\* C3: no lost update: once the only saved admin requests are 'add' requests
\* and none is in flight, the stock is the initial stock plus every added quantity.
C3_NoLostUpdate ==
    ((\A a \in Admins : adminReq[a].pc = "idle") /\ onlyAdds)
        => \A p \in Products : mongoStock[p] = InitStock[p] + added[p]

StatusChain == <<"pending_payment", "paid", "shipped", "delivered">>

Rank(status) == CHOOSE k \in 1 .. Len(StatusChain) : StatusChain[k] = status

InChain(status) == \E k \in 1 .. Len(StatusChain) : StatusChain[k] = status

\* C4: order status never moves backward along pending_payment -> paid ->
\* shipped -> delivered.
C4_StatusMonotonic ==
    [][\A o \in OrderIds :
          (InChain(orders[o].status) /\ InChain(orders'[o].status))
              => Rank(orders'[o].status) >= Rank(orders[o].status)]_vars

\* C5: confirmOrder moves an order from pending_payment to paid only when the
\* order's own stored payment intent has succeeded.
C5_PaidByOwnIntent ==
    [][\A o \in OrderIds :
          (last'.op = "confirmOrder" /\ orders[o].status = "pending_payment"
              /\ orders'[o].status = "paid")
              => intents[orders[o].paymentIntentId].status = "succeeded"]_vars

\* the product ids and quantities of an order's items, without the prices
Wanted(items) == [i \in 1 .. Len(items) |-> <<items[i].productId, items[i].quantity>>]

\* C6: two orders for the same product ids and quantities have the same item
\* prices, subtotal, shipping and total, whatever prices the clients sent.
C6_ClientPriceIndependent ==
    \A o1, o2 \in OrderIds :
        Wanted(orders[o1].items) = Wanted(orders[o2].items)
            => /\ orders[o1].items = orders[o2].items
               /\ orders[o1].subtotal = orders[o2].subtotal
               /\ orders[o1].shipping = orders[o2].shipping
               /\ orders[o1].total = orders[o2].total

\* C7: every step that persists an order creates its payment intent in the
\* same step; the order is pending_payment, references that intent, has
\* total = sum(price x quantity) + shipping, and the intent's amount is that
\* total in pence.
C7_OrderMatchesIntent ==
    [][Len(orders') > Len(orders) =>
          LET o == orders'[Len(orders')] IN
          /\ Len(orders') = Len(orders) + 1
          /\ Len(intents') = Len(intents) + 1
          /\ o.status = "pending_payment"
          /\ o.paymentIntentId = Len(intents')
          /\ o.total = Subtotal(o.items) + o.shipping
          /\ o.subtotal = Subtotal(o.items)
          /\ intents'[o.paymentIntentId].amount * 10 = o.total
          /\ intents'[o.paymentIntentId].status = "requires_payment_method"]_vars

\* an order of two different products has been persisted with its intent
C7_Witness ==
    \E o \in OrderIds :
        /\ Len(orders[o].items) >= 2
        /\ orders[o].items[1].productId # orders[o].items[2].productId
        /\ orders[o].total > orders[o].subtotal
        /\ intents[orders[o].paymentIntentId].amount * 10 = orders[o].total

RECURSIVE DeductedQty(_, _)
\* quantity of product p taken by the orders 1 .. n, counted as often as deducted
DeductedQty(p, n) ==
    IF n = 0 THEN 0
    ELSE DeductedQty(p, n - 1) + deducted[n] * QtyOf(orders[n].items, p)

C9_DeductionOnlyWhenPaid ==
    \A o \in OrderIds : orders[o].status = "pending_payment" => deducted[o] = 0

\* C10: createPaymentIntent rejects a cart with a missing product or a
\* quantity above the stock, and then creates no intent, persists no order
\* and changes no stock.
C10_RejectedCartNoEffect ==
    [][(last'.op = "createPaymentIntent" /\ last'.short)
          => /\ last'.result \in {"not-found", "out-of-resource"}
             /\ UNCHANGED <<stock, orders, intents, pendingCreate>>]_vars

\* a cart was refused for lack of stock after a transaction had taken stock,
\* and no order or intent exists
C10_Witness ==
    /\ last = [op |-> "createPaymentIntent", result |-> "out-of-resource", short |-> TRUE]
    /\ \E p \in Products : ustTotal[p] > 0 /\ stock[p] = 0
    /\ orders = <<>>
    /\ intents = <<>>

\* crossings of product p whose change event is not handled yet
PendingCrossings(p) ==
    LET es == {e \in BagToSet(productEvents) :
                  e.id = p /\ e.old >= LowStockThreshold /\ e.new < LowStockThreshold}
    IN BagCardinality([e \in es |-> productEvents[e]])

C13_WaitlistDrained ==
    \A p \in Products, email \in Emails :
        /\ CopiesIn(RestockMail(p, email), mail) <= 1
        /\ (p \in DOMAIN waitlists /\ email \in waitlists[p])
              => CopiesIn(RestockMail(p, email), mail) = 0

\* C11: a failed payment confirmation never moves the order: a confirmOrder
\* call for an existing order whose retrieved intent is not succeeded leaves
\* every order (and the stock) as it was and reports failure.
C11_FailedConfirmNoChange ==
    [][\A o \in OrderRange, i \in OrderRange :
          (/\ o \in OrderIds
           /\ i \in 1 .. Len(intents)
           /\ intents[i].status # "succeeded"
           /\ ConfirmOrder(o, i))
              => /\ orders' = orders
                 /\ stock' = stock
                 /\ last'.result = "not-succeeded"]_vars

\* a confirmation was refused for an order whose trigger has run; the order
\* is still pending_payment
C11_Witness ==
    /\ last = [op |-> "confirmOrder", result |-> "not-succeeded", short |-> FALSE]
    /\ \E o \in OrderIds :
          /\ orders[o].status = "pending_payment"
          /\ o \notin pendingCreate
          /\ intents[orders[o].paymentIntentId].status # "succeeded"

\* C19: a notification failure never blocks or undoes an order or stock
\* update and is swallowed: when the mail step fails, onOrderCreated has
\* deducted the stock and each artwork decision has updated the order, and
\* the operation does not report a failure.
C19_MailFailureSwallowed ==
    [][\A o \in OrderIds :
          /\ (~BatchFails(orders[o].items) /\ OnOrderCreated(o, FALSE))
                => (deducted'[o] = deducted[o] + 1 /\ last'.result = "ok")
          /\ ApproveCustomArtwork(o, FALSE)
                => (orders'[o].customOrderStatus = "approved_mockup" /\ last'.result = "ok")
          /\ RequestCustomArtworkChanges(o, FALSE)
                => (orders'[o].customOrderStatus = "changes_requested" /\ last'.result = "ok")
          /\ RejectCustomArtwork(o, FALSE)
                => (orders'[o].status = "cancelled" /\ last'.result = "ok")]_vars

\* C20: an order whose custom artwork was rejected is cancelled, whatever is
\* applied to it afterwards.
C20_RejectedIsCancelled ==
    \A o \in OrderIds :
        orders[o].customOrderStatus = "rejected" => orders[o].status = "cancelled"

\* review-request mails enqueued for order o
ReviewMails(m, o) == CopiesIn(OrderMail("review-request", o), m)

\* C14: a run of the review-request sweep sends one request to, and flags,
\* every delivered order whose delivery timestamp is at least 7 days old and
\* that is not flagged yet, and sends nothing for any other order.
C14_ReviewAfterSevenDays ==
    [][last'.op = "sendReviewRequests" =>
          \A o \in OrderIds :
              IF /\ orders[o].status = "delivered"
                 /\ orders[o].time_delivered # NoTime
                 /\ now - orders[o].time_delivered >= ReviewAfterDays * DayMinutes
                 /\ orders[o].review_requested # "true"
              THEN /\ ReviewMails(mail', o) = ReviewMails(mail, o) + 1
                   /\ orders'[o].review_requested = "true"
              ELSE ReviewMails(mail', o) = ReviewMails(mail, o)]_vars

\* mails of a template enqueued for cart c
CartMails(m, template, c) == CopiesIn(CartMail(template, c), m)

\* C15: a run of the abandoned-cart sweep selects every active cart with an
\* email whose updatedAt is more than 30 minutes old and that is not flagged
\* as emailed, however long ago it became 30 minutes old.
C15_EveryOldCartSelected ==
    [][(job = Idle /\ job'.name = "checkAbandonedCarts") =>
          \A c \in DOMAIN carts :
              (/\ carts[c].updatedAt < now - ThirtyMinutes
               /\ carts[c].status = "active"
               /\ carts[c].email
               /\ carts[c].emailSent = FALSE)
                  => \E k \in 1 .. Len(job'.docs) : job'.docs[k] = c]_vars

\* C16: the discount follow-up is enqueued for a cart only when its initial
\* reminder was enqueued and flagged at least 24 hours earlier, and (no run
\* being killed or failing) a cart gets at most one initial reminder and at
\* most one discount follow-up.
C16_DiscountAfterReminder ==
    [][\A c \in DOMAIN carts :
          /\ CartMails(mail', "abandoned-cart-2", c) > CartMails(mail, "abandoned-cart-2", c)
                => /\ carts[c].emailSent
                   /\ CartMails(mail, "abandoned-cart-1", c) >= 1
                   /\ carts[c].firstEmailSentAt # NoTime
                   /\ now - carts[c].firstEmailSentAt >= DayMinutes
          /\ CartMails(mail', "abandoned-cart-1", c) <= 1
          /\ CartMails(mail', "abandoned-cart-2", c) <= 1]_vars

\* a cart has got its initial reminder and, a day later, its discount follow-up
C16_Witness ==
    \E c \in DOMAIN carts :
        /\ CartMails(mail, "abandoned-cart-1", c) = 1
        /\ CartMails(mail, "abandoned-cart-2", c) = 1
        /\ carts[c].discountEmailSent
        /\ now - carts[c].firstEmailSentAt >= DayMinutes

C18_FailureDoesNotAbort ==
    [][(job.name = "checkAbandonedCarts" /\ last'.result = "error") =>
          \A k \in 2 .. Len(job.docs) :
              IF job.pass = 1 THEN carts'[job.docs[k]].emailSent
              ELSE carts'[job.docs[k]].discountEmailSent]_vars

\* what a callable or a route answers to a caller it refuses
Denied == {"unauthenticated", "permission-denied", "401", "403"}

\* C21: every admin operation changes state only for a caller with an admin
\* credential: a call of updateStockTransaction, of an artwork decision or of
\* PATCH /:id/stock by an anonymous caller or a customer is refused and
\* leaves products and orders unchanged.
C21_AdminOnly ==
    [][\A caller \in Callers \ {"admin"} :
          /\ \A items \in SingleLists :
                UpdateStockTransactionAs(caller, items)
                    => (stock' = stock /\ last'.result \in Denied)
          /\ \A o \in OrderIds, mailOk \in BOOLEAN :
                (\/ ApproveCustomArtworkAs(caller, o, mailOk)
                 \/ RequestCustomArtworkChangesAs(caller, o, mailOk)
                 \/ RejectCustomArtworkAs(caller, o, mailOk))
                    => (orders' = orders /\ last'.result \in Denied)
          /\ \A id \in ProductIds, operation \in AdminOperations, quantity \in AdminQuantities :
                PatchStock(caller, "a1", id, operation, quantity)
                    => (UNCHANGED <<mongoStock, adminReq>> /\ last'.result \in Denied)]_vars

\* C22: the webhook trusts an event only after its signature verifies: a
\* request whose signature check fails is answered with an error and changes
\* no order, and the webhook sets an order to paid only in handling a
\* verified checkout.session.completed event that carries that order's id.
C22_WebhookVerified ==
    [][/\ \A type \in EventTypes, o \in {NoOrder} \cup OrderRange :
             StripeWebhook(type, o, FALSE) => (orders' = orders /\ last'.result = "400")
       /\ \A o \in OrderIds :
             (last'.op = "stripeWebhook" /\ orders'[o] # orders[o])
                 => /\ orders'[o].status = "paid"
                    /\ StripeWebhook("checkout.session.completed", o, TRUE)]_vars

\* an order was set to paid by the verified event of its completed session
C22_Witness ==
    /\ last = [op |-> "stripeWebhook", result |-> "200", short |-> FALSE]
    /\ \E o \in OrderIds : orders[o].status = "paid" /\ sessions[o] = "completed"

\* an amount of whole pounds, in tenths of a penny
Pounds(n) == n * 1000

\* C23: shipping is the flat fee 4.99 unless the subtotal exceeds the
\* free-shipping threshold of 100, and then it is 0: every order with
\* subtotal <= 100 has shipping 4.99 and every order with subtotal > 100 has
\* shipping 0; 2 x 10.00 + 1 x 25.00 gives subtotal 45.00, shipping 4.99 and
\* total 49.99.
C23_ShippingThreshold ==
    \A o \in OrderIds :
        /\ orders[o].subtotal <= Pounds(100) => orders[o].shipping = FlatShipping
        /\ orders[o].subtotal > Pounds(100) => orders[o].shipping = 0
        /\ (QtyOf(orders[o].items, "pA") = 2 /\ QtyOf(orders[o].items, "pB") = 1)
              => /\ orders[o].subtotal = Pounds(45)
                 /\ orders[o].shipping = 4990
                 /\ orders[o].total = 49990

\* shipping notifications enqueued for order o
ShippingMails(m, o) == CopiesIn(OrderMail("shipping-notification", o), m)

PendingWhere(changed) ==
    LET es == {e \in BagToSet(orderEvents) : (e.old # e.new) = changed}
    IN BagCardinality([e \in es |-> orderEvents[e]])

\* every invocation of the trigger lowers this measure
TriggerMeasure == 2 * PendingWhere(TRUE) + PendingWhere(FALSE)

RECURSIVE RequestedUpTo(_, _, _)
\* total quantity the first n entries of a stock list request of product p
RequestedUpTo(items, p, n) ==
    IF n = 0 THEN 0
    ELSE RequestedUpTo(items, p, n - 1) + (IF items[n].id = p THEN items[n].quantity ELSE 0)

\* C25: after a successful updateStockTransaction each product's stock has
\* decreased by exactly the total quantity the list requests of it, also
\* when a product id appears in more than one entry, and the stock of a
\* product not in the list is unchanged.
C25_AllListedDecremented ==
    [][\A items \in StockLists :
          (UpdateStockTransaction(items) /\ last'.result = "success")
              => \A p \in Products :
                    stock'[p] = stock[p] - RequestedUpTo(items, p, Len(items))]_vars

\* Contact documents of a client created at time t
AcceptedAt(client, t) == CopiesIn([client |-> client, at |-> t], contacts)

\* C26: POST /contact/submit is rate limited to 5 requests per minute per
\* client, also for unauthenticated clients: no client has more than 5
\* submissions accepted within one minute.
C26_ContactRateLimited ==
    \A client \in Clients, t \in 0 .. now : AcceptedAt(client, t) <= ContactLimit

\* the lock of an identifier, once set: while it lasts both functions report
\* it and nothing changes or removes its record but resetLoginAttempts; once
\* it is over both functions report the identifier unlocked and reset the
\* counter; lockedUntil is the time of the locking attempt plus the duration
LockKept ==
    /\ \A identifier \in Identifiers :
          LET key == ToLowerCase(identifier) IN
          key \in DOMAIN loginAttempts =>
              LET attempt == loginAttempts[key]
                  over == attempt.lockedUntil # NoTime /\ now >= attempt.lockedUntil
              IN
              /\ (TrackLoginAttempt(identifier) /\ LockedNow(attempt))
                    => (last'.result = "locked" /\ loginAttempts' = loginAttempts)
              /\ (TrackLoginAttempt(identifier) /\ over)
                    => /\ last'.result = "unlocked"
                       /\ loginAttempts'[key].count = 1
                       /\ loginAttempts'[key].lockedUntil = NoTime
              /\ (IsAccountLocked(identifier) /\ LockedNow(attempt))
                    => (last'.result = "locked" /\ loginAttempts' = loginAttempts)
              /\ (IsAccountLocked(identifier) /\ over)
                    => /\ last'.result = "unlocked"
                       /\ loginAttempts'[key].count = 0
                       /\ loginAttempts'[key].lockedUntil = NoTime
    /\ \A key \in DOMAIN loginAttempts :
          LockedNow(loginAttempts[key])
              => IF key \in DOMAIN loginAttempts'
                 THEN loginAttempts'[key] = loginAttempts[key]
                 ELSE last'.op = "resetLoginAttempts"
    /\ \A key \in DOMAIN loginAttempts' :
          loginAttempts'[key].lockedUntil # NoTime
              => loginAttempts'[key].lockedUntil = loginAttempts'[key].lastAttempt + LockoutMinutes

\* C27 as stated: the attempt that is the maxLoginAttempts-th tracked for an
\* identifier since its last resetLoginAttempts locks it until lock time +
\* accountLockoutDuration, and the lock is kept as in LockKept.
C27_LockAfterMaxAttempts ==
    [][/\ \A identifier \in Identifiers :
             (TrackLoginAttempt(identifier) /\ tracked'[ToLowerCase(identifier)] = MaxLoginAttempts)
                 => /\ last'.result = "locked"
                    /\ loginAttempts'[ToLowerCase(identifier)].lockedUntil = now + LockoutMinutes
       /\ LockKept]_vars

\* C27 amended: the attempt that takes the counter kept for an identifier to
\* maxLoginAttempts (the attempts tracked since the last resetLoginAttempts,
\* the last cleanup that deleted the record and the end of the last lock)
\* locks it until lock time + accountLockoutDuration, and the lock is kept
\* as in LockKept.
C27_LockAtMaxCount ==
    [][/\ \A identifier \in Identifiers :
             LET key == ToLowerCase(identifier) IN
             (/\ TrackLoginAttempt(identifier)
              /\ key \in DOMAIN loginAttempts
              /\ ~LockedNow(loginAttempts[key])
              /\ AfterLockout(loginAttempts[key]).count + 1 >= MaxLoginAttempts)
                 => /\ last'.result = "locked"
                    /\ loginAttempts'[key].lockedUntil = now + LockoutMinutes
       /\ LockKept]_vars

\* an identifier was locked, the lockout has passed and isAccountLocked has
\* reported it unlocked and reset its counter
C27_Witness ==
    /\ last = [op |-> "isAccountLocked", result |-> "unlocked", short |-> FALSE]
    /\ \E key \in DOMAIN loginAttempts :
          /\ tracked[key] >= MaxLoginAttempts
          /\ loginAttempts[key].count = 0
          /\ loginAttempts[key].lockedUntil = NoTime
          /\ now >= loginAttempts[key].lastAttempt + LockoutMinutes

\* C28: through submitReview, POST /:productId/reviews and POST
\* /products/:id/reviews a review is stored for a product only if the
\* authenticated reviewer has a qualifying order that contains the product (a
\* delivered order for submitReview, an order with completed payment for the
\* Express routes); a call that is denied stores no review.
NewReviews(p) ==
    {productDocs'[p].reviews[i] : i \in 1 .. Len(productDocs'[p].reviews)}
        \ {productDocs[p].reviews[i] : i \in 1 .. Len(productDocs[p].reviews)}

C28_PurchaseVerified ==
    [][/\ \A p \in Products : \A r \in NewReviews(p) :
             r.user \in Members /\ HasPurchased(r.user, p)
       /\ Len(productReviews') > Len(productReviews) =>
             LET r == productReviews'[Len(productReviews')]
             IN  r.userId # NoUid /\ Verified(r.userId, r.productId)
       /\ last'.result \in {"401", "403", "unauthenticated", "permission-denied"} =>
             /\ productReviews' = productReviews
             /\ productDocs' = productDocs
             /\ reviewReq' = reviewReq]_vars

\* C29: the stored rating of every product matches its reviews: rating.count
\* is the number of reviews, rating.average times rating.count is the sum of
\* the review ratings (average 0 and count 0 without reviews), and no user has
\* more than one review on the product.
Matches(doc) ==
    /\ doc.rating.count = Len(doc.reviews)
    /\ doc.rating.average[1] * doc.rating.count = TotalRating(doc.reviews) * doc.rating.average[2]
    /\ doc.reviews = <<>> => doc.rating.average[1] = 0
    /\ \A i, j \in 1 .. Len(doc.reviews) :
          doc.reviews[i].user = doc.reviews[j].user => i = j

C29_RatingMatchesReviews == \A p \in Products : Matches(productDocs[p])

====
